---- MODULE Spec2Model ----
(***************************************************************************)
(* Model of src/transform/schema.ts: the recursive schema-to-type          *)
(* transformer (transformSchemaObj, transformSchemaObjMap,                 *)
(* addRequiredProps, transformAnyOf, transformOneOf).                      *)
(*                                                                         *)
(* Encoding of JavaScript values                                           *)
(*   - a schema node is a function from its own keys to their values       *)
(*     (a TLA+ record); a key the node does not carry is not in DOMAIN;    *)
(*   - `type` holds a string; a node whose `type` is an array carries the  *)
(*     list under `typeArray` instead;                                     *)
(*   - `items` holds a single node; a node whose `items` is an array       *)
(*     carries the list under `itemsTuple` instead;                        *)
(*   - `$ref` is spelled `ref`;                                            *)
(*   - the booleans true / false where a node may stand                    *)
(*     (additionalProperties) are JsTrue / JsFalse, undefined is           *)
(*     Undefined;                                                          *)
(*   - a property map is the sequence of its entries [k, v] in insertion   *)
(*     order, a mapping likewise;                                          *)
(*   - a literal (const, enum member) is [t |-> its typeof, s |-> its      *)
(*     text];                                                              *)
(*   - emitted code is a string, built with \o exactly as the template     *)
(*     literals build it.                                                  *)
(***************************************************************************)
EXTENDS Integers, Sequences, FiniteSets, TLC

VARIABLES node, options, called, output, fields

vars == <<node, options, called, output, fields>>

(***************************************************************************)
(* JavaScript helpers                                                      *)
(***************************************************************************)
Empty == [f \in {} |-> 0]
Undefined == [jsundefined |-> TRUE]
JsTrue == [jsbool |-> TRUE]
JsFalse == [jsbool |-> FALSE]

Has(n, f) == f \in DOMAIN n
IsUndefined(v) == Has(v, "jsundefined")
IsBool(v) == Has(v, "jsbool")
\* node[f], undefined when the key is absent
Get(n, f) == IF Has(n, f) THEN n[f] ELSE Undefined
\* truthiness of a value that is undefined, a boolean or an object
Truthy(v) == ~IsUndefined(v) /\ (IsBool(v) => v.jsbool)
\* Object.keys(v).length of an object
KeyCount(v) == Cardinality(DOMAIN v)
\* node.nullable as a condition
Nullable(n) == Has(n, "nullable") /\ n.nullable
Range(s) == {s[i] : i \in 1..Len(s)}

RECURSIVE Join(_, _)
\* Array.prototype.join
Join(strs, sep) ==
  IF Len(strs) = 0 THEN ""
  ELSE IF Len(strs) = 1 THEN strs[1]
  ELSE strs[1] \o sep \o Join(Tail(strs), sep)

RECURSIVE Concat(_)
Concat(strs) == IF Len(strs) = 0 THEN "" ELSE strs[1] \o Concat(Tail(strs))

\* Array.from({ length: n }).map(() => x)
Repeat(n, x) == [i \in 1..n |-> x]

\* JSON.stringify of a string without characters to escape
JSONStringify(s) == "\"" \o s \o "\""

\* The keys every plain object inherits from Object.prototype: `k in obj` is
\* true for them whatever obj's own keys are.
ObjectPrototypeKeys ==
  {"constructor", "toString", "valueOf", "hasOwnProperty", "isPrototypeOf",
   "propertyIsEnumerable", "toLocaleString", "__proto__"}

Keys(properties) == {properties[i].k : i \in 1..Len(properties)}

\* r in properties
JsIn(r, properties) == r \in Keys(properties) \/ r \in ObjectPrototypeKeys

(***************************************************************************)
(* utils.ts (imported by schema.ts; its text is not part of the sources at *)
(* hand, so these follow the specification: section 4.1 for the            *)
(* classifier, section 6 for the grammar of the combinators).              *)
(***************************************************************************)
nodeType(obj) ==
  IF Has(obj, "typeArray") THEN "type-array"
  ELSE IF Has(obj, "ref") THEN "ref"
  ELSE IF Has(obj, "const") THEN "const"
  ELSE IF Has(obj, "enum") THEN "enum"
  ELSE IF \/ (Has(obj, "type") /\ obj.type = "object")
          \/ Has(obj, "properties") \/ Has(obj, "anyOf") \/ Has(obj, "oneOf")
          \/ Has(obj, "allOf") \/ Has(obj, "additionalProperties") THEN "object"
  ELSE IF Has(obj, "type") /\ obj.type = "array" THEN "array"
  ELSE IF Has(obj, "type") /\ obj.type \in {"null", "string", "number", "boolean"}
       THEN obj.type
  ELSE "unknown"

tsReadonly(immutable) == IF immutable THEN "readonly " ELSE ""

tsUnionOf(types) == Join(types, " | ")

tsIntersectionOf(types) == Join(SelectSeq(types, LAMBDA t : t # ""), " & ")

tsTupleOf(types) == "[" \o Join(types, ", ") \o "]"

tsArrayOf(type) == type \o "[]"

\* a string literal is quoted, every other literal is its own text;
\* the text of null is "null" whether or not the node is nullable
parseSingleSimpleValue(value, isNodeNullable) ==
  IF value.t = "string" THEN "'" \o value.s \o "'"
  ELSE IF value.t = "null" /\ ~isNodeNullable THEN "null"
  ELSE value.s

\* the comment of a node, pre-formatted
prepareComment(v) ==
  IF Has(v, "description") THEN "/** " \o v.description \o " */\n" ELSE ""

(***************************************************************************)
(* The caller's formatter, options.formatter: "none" when not configured.  *)
(* "format" is the hook that types every node carrying `format` as Date    *)
(* and leaves every other node to the default dispatch.                    *)
(***************************************************************************)
Formatter(name, n) ==
  IF name = "format" /\ Has(n, "format") THEN "Date" ELSE ""

(***************************************************************************)
(* schema.ts                                                               *)
(***************************************************************************)
hasDefaultValue(n) == Has(n, "default")

\* a formatter consulted for leaves only: objects and arrays always take the
\* default dispatch
OverriddenType_LeavesOnly(n, opts) ==
  IF opts.formatter # "none" /\ nodeType(n) \notin {"object", "array"}
  THEN Formatter(opts.formatter, n) ELSE ""

\* options.formatter && options.formatter(node), line 119
OverriddenType(n, opts) ==
  IF opts.formatter # "none" THEN Formatter(opts.formatter, n) ELSE ""

\* the optional marker of one property: lines 39-40
RequiredMarker(k, v, opts) ==
  IF k \in opts.required
     \/ (opts.defaultNonNullable
         /\ hasDefaultValue(IF Has(v, "schema") THEN v.schema ELSE v))
  THEN "" ELSE "?"

\* output.replace(EOF_RE, "\n"): the run of line ends that closes the text
\* becomes one. `lines` are the declarations without their final "\n"; each
\* ends in ";", so the run that closes the text is the last "\n" alone.
ReplaceEOF(lines) ==
  IF Len(lines) = 0 THEN "" ELSE Join(lines, "\n") \o "\n"

\* {...node, type}
SpreadType(n, type) ==
  [f \in (DOMAIN n \ {"typeArray"}) \cup {"type"} |->
     IF f = "type" THEN type ELSE n[f]]

\* the nested required names added to the enclosing ones instead of replacing them
NarrowRequired_Inherit(opts, n) ==
  [opts EXCEPT !.required =
     opts.required \cup (IF Has(n, "required") THEN Range(n.required) ELSE {})]

\* { ...options, required: new Set(node.required || []) }
NarrowRequired(opts, n) ==
  [opts EXCEPT !.required = IF Has(n, "required") THEN Range(n.required) ELSE {}]

\* a filter that drops every branch carrying `required`, whatever else it carries
KeepAnyOf_AnyRequired(s) == ~Has(s, "required")

\* the anyOf filter, lines 77-83
KeepAnyOf(s) ==
  IF KeyCount(s) > 1 THEN TRUE
  ELSE IF Has(s, "required") THEN FALSE
  ELSE TRUE

\* the key a reference is mapped from: new Map(entries.map(([k, v]) => [v, k]))
\* keeps, for a reference listed twice, the last key
DiscriminatorMapHas(mapping, ref) == \E i \in 1..Len(mapping) : mapping[i].v = ref
DiscriminatorMapGet(mapping, ref) ==
  LET last == CHOOSE i \in 1..Len(mapping) :
                /\ mapping[i].v = ref
                /\ \A j \in (i + 1)..Len(mapping) : mapping[j].v # ref
  IN mapping[last].k

\* the literal type a mapped branch is intersected with, line 103
DiscriminatorLiteral(propertyName, key) ==
  " & { " \o propertyName \o ": " \o JSONStringify(key) \o " }"

\* lines 225-232
MinItems(n) == IF Has(n, "minItems") /\ n.minItems >= 0 THEN n.minItems ELSE 0
HasMaxItems(n) ==
  Has(n, "maxItems") /\ n.maxItems >= 0 /\ MinItems(n) <= n.maxItems
EstimateCodeSize(n) ==
  IF ~HasMaxItems(n) THEN MinItems(n)
  ELSE (n.maxItems * (n.maxItems + 1) - MinItems(n) * (MinItems(n) - 1)) \div 2

CodeSizeLimit == 30

\* the threshold compared with <= instead of <
ExpandsToTuples_AtLimit(n, opts) ==
  /\ (MinItems(n) # 0 \/ HasMaxItems(n))
  /\ opts.supportArrayLength
  /\ EstimateCodeSize(n) <= CodeSizeLimit

\* the condition of line 234
ExpandsToTuples(n, opts) ==
  /\ (MinItems(n) # 0 \/ HasMaxItems(n))
  /\ opts.supportArrayLength
  /\ EstimateCodeSize(n) < CodeSizeLimit

\* an empty property map not counted as "no properties"
IsEmptyObject_NoLength(n) ==
  /\ ~(Has(n, "anyOf") \/ Has(n, "oneOf") \/ Has(n, "allOf"))
  /\ ~Has(n, "properties")
  /\ ~Truthy(Get(n, "additionalProperties"))

\* the condition of lines 169-173
IsEmptyObject(n) ==
  /\ ~(Has(n, "anyOf") \/ Has(n, "oneOf") \/ Has(n, "allOf"))
  /\ (~Has(n, "properties") \/ Len(n.properties) = 0)
  /\ ~Truthy(Get(n, "additionalProperties"))

\* the condition of lines 187-190
HasCatchAll(n, opts) ==
  \/ Truthy(Get(n, "additionalProperties"))
  \/ (~Has(n, "additionalProperties") /\ opts.additionalProperties /\ opts.version = 3)

RECURSIVE transformSchemaObj(_, _)
RECURSIVE transformSchemaObjMap(_, _)
RECURSIVE addRequiredProps(_, _, _, _)
RECURSIVE transformAnyOf(_, _)
RECURSIVE transformOneOf(_, _, _)
RECURSIVE CatchAllValueType(_, _)
RECURSIVE AdditionalProperties(_, _)
RECURSIVE ObjectParts(_, _)
RECURSIVE TransformObject(_, _)
RECURSIVE TransformArray(_, _)
RECURSIVE TransformCore(_, _)

transformSchemaObjMap(obj, opts) ==
  LET Line(e) ==
        prepareComment(e.v) \o tsReadonly(opts.immutableTypes)
        \o "\"" \o e.k \o "\"" \o RequiredMarker(e.k, e.v, opts) \o ": "
        \o transformSchemaObj(IF Has(e.v, "schema") THEN e.v.schema ELSE e.v, opts)
        \o ";"
  IN ReplaceEOF([i \in 1..Len(obj) |-> Line(obj[i])])

addRequiredProps(properties, required, additionalProperties, opts) ==
  LET missingRequired == SelectSeq(required, LAMBDA r : ~JsIn(r, properties))
      valueType == IF Truthy(additionalProperties)
                   THEN transformSchemaObj(additionalProperties, opts)
                   ELSE "unknown"
      out == Concat([i \in 1..Len(missingRequired) |->
                       missingRequired[i] \o ": " \o valueType \o ";\n"])
  IN IF Len(missingRequired) = 0 THEN <<>> ELSE <<"{\n" \o out \o "}">>

transformAnyOf(anyOf, opts) ==
  LET schemas == SelectSeq(anyOf, KeepAnyOf)
  IN IF Len(schemas) = 0 THEN ""
     ELSE tsUnionOf([i \in 1..Len(schemas) |-> transformSchemaObj(schemas[i], opts)])

transformOneOf(oneOf, opts, discriminator) ==
  LET Type(value) ==
        LET out == transformSchemaObj(value, opts)
        IN IF /\ ~IsUndefined(discriminator)
              /\ nodeType(value) = "ref"
              /\ DiscriminatorMapHas(discriminator.mapping, value.ref)
           THEN out \o DiscriminatorLiteral(discriminator.propertyName,
                         DiscriminatorMapGet(discriminator.mapping, value.ref))
           ELSE out
  IN tsUnionOf([i \in 1..Len(oneOf) |-> Type(oneOf[i])])

\* lines 191-204: the value type of the catch-all, when there is one
CatchAllValueType(n, opts) ==
  LET ap == Get(n, "additionalProperties")
  IN IF IsUndefined(ap) \/ (IsBool(ap) /\ ap.jsbool) \/ KeyCount(ap) = 0
     THEN "unknown"
     ELSE IF Has(ap, "oneOf") THEN transformOneOf(ap.oneOf, opts, Undefined)
     ELSE IF Has(ap, "anyOf") THEN transformAnyOf(ap.anyOf, opts)
     ELSE LET t == transformSchemaObj(ap, opts)
          IN IF t # "" THEN t ELSE "unknown"

\* lines 186-206: the catch-all expression, "" when there is none
AdditionalProperties(n, opts) ==
  LET readonly == tsReadonly(opts.immutableTypes)
      ap == Get(n, "additionalProperties")
  IN IF ~HasCatchAll(n, opts) THEN ""
     ELSE IF IsUndefined(ap) \/ (IsBool(ap) /\ ap.jsbool) \/ KeyCount(ap) = 0
          THEN "{ " \o readonly \o "[key: string]: unknown }"
     ELSE "{ " \o readonly \o "[key: string]: " \o CatchAllValueType(n, opts) \o "; }"

\* the property block put first and the synthesized fields last
ObjectParts_PropertiesFirst(n, opts) ==
  LET properties == transformSchemaObjMap(
                      IF Has(n, "properties") THEN n.properties ELSE <<>>,
                      NarrowRequired(opts, n))
      missingRequired == addRequiredProps(
                           IF Has(n, "properties") THEN n.properties ELSE <<>>,
                           IF Has(n, "required") THEN n.required ELSE <<>>,
                           Get(n, "additionalProperties"), opts)
      additionalProperties == AdditionalProperties(n, opts)
  IN (IF properties # "" THEN <<"{\n" \o properties \o "\n}">> ELSE <<>>)
     \o (IF Has(n, "allOf")
         THEN [i \in 1..Len(n.allOf) |-> transformSchemaObj(n.allOf[i], opts)]
         ELSE <<>>)
     \o (IF Has(n, "anyOf") THEN <<transformAnyOf(n.anyOf, opts)>> ELSE <<>>)
     \o (IF Has(n, "oneOf")
         THEN <<transformOneOf(n.oneOf, opts, Get(n, "discriminator"))>>
         ELSE <<>>)
     \o (IF additionalProperties # "" THEN <<additionalProperties>> ELSE <<>>)
     \o missingRequired

\* lines 208-216: the list handed to tsIntersectionOf
ObjectParts(n, opts) ==
  LET properties == transformSchemaObjMap(
                      IF Has(n, "properties") THEN n.properties ELSE <<>>,
                      NarrowRequired(opts, n))
      missingRequired == addRequiredProps(
                           IF Has(n, "properties") THEN n.properties ELSE <<>>,
                           IF Has(n, "required") THEN n.required ELSE <<>>,
                           Get(n, "additionalProperties"), opts)
      additionalProperties == AdditionalProperties(n, opts)
  IN (IF Has(n, "allOf")
      THEN [i \in 1..Len(n.allOf) |-> transformSchemaObj(n.allOf[i], opts)]
      ELSE <<>>)
     \o (IF Has(n, "anyOf") THEN <<transformAnyOf(n.anyOf, opts)>> ELSE <<>>)
     \o (IF Has(n, "oneOf")
         THEN <<transformOneOf(n.oneOf, opts, Get(n, "discriminator"))>>
         ELSE <<>>)
     \o (IF properties # "" THEN <<"{\n" \o properties \o "\n}">> ELSE <<>>)
     \o missingRequired
     \o (IF additionalProperties # "" THEN <<additionalProperties>> ELSE <<>>)

\* case "object", lines 160-219
TransformObject(n, opts) ==
  LET readonly == tsReadonly(opts.immutableTypes)
      missingRequired == addRequiredProps(
                           IF Has(n, "properties") THEN n.properties ELSE <<>>,
                           IF Has(n, "required") THEN n.required ELSE <<>>,
                           Get(n, "additionalProperties"), opts)
  IN IF IsEmptyObject(n)
     THEN tsIntersectionOf(<<"{ " \o readonly \o "[key: string]: unknown }">>
                           \o missingRequired)
     ELSE tsIntersectionOf(ObjectParts(n, opts))

\* case "array", lines 221-252
TransformArray(n, opts) ==
  LET readonly == tsReadonly(opts.immutableTypes)
  IN IF Has(n, "itemsTuple")
     THEN readonly \o tsTupleOf([i \in 1..Len(n.itemsTuple) |->
                                   transformSchemaObj(n.itemsTuple[i], opts)])
     ELSE LET minItems == MinItems(n)
              items == IF Has(n, "items") THEN transformSchemaObj(n.items, opts)
                       ELSE "unknown"
          IN IF ExpandsToTuples(n, opts)
             THEN IF ~HasMaxItems(n)
                  THEN readonly \o tsTupleOf(Repeat(minItems, items)
                                             \o <<"..." \o tsArrayOf(items)>>)
                  ELSE tsUnionOf([i \in 1..(n.maxItems - minItems + 1) |->
                         readonly \o tsTupleOf(Repeat(i - 1 + minItems, items))])
             ELSE readonly \o tsArrayOf(items)

\* the switch of lines 130-253
TransformCore(n, opts) ==
  LET t == nodeType(n)
  IN CASE t = "type-array" ->
            tsUnionOf([i \in 1..Len(n.typeArray) |->
                         transformSchemaObj(SpreadType(n, n.typeArray[i]), opts)])
       [] t = "ref" -> n.ref
       [] t \in {"null", "string", "number", "boolean", "unknown"} -> t
       [] t = "const" -> parseSingleSimpleValue(n.const, Nullable(n))
       [] t = "enum" ->
            tsUnionOf([i \in 1..Len(n.enum) |->
                         parseSingleSimpleValue(n.enum[i], Nullable(n))])
       [] t = "object" -> TransformObject(n, opts)
       [] t = "array" -> TransformArray(n, opts)

transformSchemaObj(n, opts) ==
  LET overriddenType == OverriddenType(n, opts)
      core == IF overriddenType # "" THEN overriddenType ELSE TransformCore(n, opts)
  IN IF Nullable(n) THEN "(" \o core \o ") | null" ELSE core

(***************************************************************************)
(* The inputs: schema nodes and configurations                             *)
(***************************************************************************)
\* the longest anyOf / oneOf list
MaxBranches == 2
\* the largest minItems / maxItems of the dense range (the threshold of the
\* bounded case lies between maxItems 7 and 8)
MaxLen == 8

LitStr(s) == [t |-> "string", s |-> s]
LitNum(s) == [t |-> "number", s |-> s]
LitNull == [t |-> "null", s |-> "null"]

Str == [type |-> "string"]
Num == [type |-> "number"]
RefA == [ref |-> "#/A"]
RefB == [ref |-> "#/B"]
StrDefault == [type |-> "string", default |-> LitStr("x")]
StrDoc == [type |-> "string", description |-> "doc"]
StrDate == [type |-> "string", format |-> "date-time"]

With(n, f, v) == [g \in DOMAIN n \cup {f} |-> IF g = f THEN v ELSE n[g]]
Without(n, f) == [g \in DOMAIN n \ {f} |-> n[g]]
SeqsUpTo(S, n) == UNION {[1..k -> S] : k \in 0..n}

PlainLeaves ==
  { Str, Num, [type |-> "boolean"], [type |-> "null"], Empty, RefA, RefB,
    [const |-> LitStr("a")], [const |-> LitNull],
    [enum |-> <<LitStr("a"), LitNum("1"), LitNull>>],
    [typeArray |-> <<"string", "number">>], [typeArray |-> <<"string">>],
    StrDefault, StrDoc, StrDate, [ref |-> "#/A", format |-> "date-time"] }

Leaves == PlainLeaves \cup {With(n, "nullable", TRUE) : n \in PlainLeaves}
            \cup {With(Str, "nullable", FALSE)}

Lengths == (-1..MaxLen) \cup {29, 30, 100}

ArrayNodes ==
  LET withItems == {[type |-> "array"], [type |-> "array", items |-> Str]}
      withMin == withItems \cup {With(n, "minItems", m) : n \in withItems, m \in Lengths}
  IN withMin \cup {With(n, "maxItems", m) : n \in withMin, m \in Lengths}
       \cup { [type |-> "array", itemsTuple |-> <<Str, With(Num, "nullable", TRUE)>>],
              [type |-> "array", itemsTuple |-> <<>>],
              [type |-> "array", items |-> With(RefA, "nullable", TRUE), minItems |-> 1,
               maxItems |-> 2, nullable |-> TRUE],
              [type |-> "array", items |-> Str, minItems |-> 1, maxItems |-> 3,
               format |-> "date-time"] }

Inner == [type |-> "object", properties |-> <<[k |-> "a", v |-> Str], [k |-> "c", v |-> Num]>>,
          required |-> <<"c">>]

PropertyMaps ==
  { <<>>,
    <<[k |-> "a", v |-> Str]>>,
    <<[k |-> "a", v |-> StrDoc], [k |-> "b", v |-> StrDefault]>>,
    <<[k |-> "b", v |-> [schema |-> StrDefault, description |-> "param"]],
      [k |-> "a", v |-> [schema |-> With(Num, "nullable", TRUE)]]>>,
    <<[k |-> "a", v |-> Inner], [k |-> "c", v |-> StrDate]>> }

RequiredLists ==
  { <<>>, <<"a">>, <<"b", "z">>, <<"z", "a", "y">>, <<"constructor">>, <<"c", "a">> }

RequiredOnly == [required |-> <<"x">>]

AdditionalPropertiesValues ==
  { JsTrue, JsFalse, Empty, Num, With(Str, "nullable", TRUE),
    [oneOf |-> <<Str, RefA>>], [anyOf |-> <<Str, Num>>],
    [anyOf |-> <<RequiredOnly>>], [anyOf |-> <<>>], [allOf |-> <<>>],
    [type |-> "object", additionalProperties |-> Str] }

Branches ==
  { Str, RefA, RefB, With(RefA, "nullable", TRUE), Empty, RequiredOnly,
    [required |-> <<"x">>, properties |-> <<>>] }

Discriminators ==
  { [propertyName |-> "kind",
     mapping |-> <<[k |-> "a", v |-> "#/A"], [k |-> "b", v |-> "#/B"],
                   [k |-> "a2", v |-> "#/A"]>>],
    [propertyName |-> "pet-type", mapping |-> <<[k |-> "c", v |-> "#/C"]>>] }

BranchLists == SeqsUpTo(Branches, MaxBranches)

ObjectNodes ==
  LET base == {[type |-> "object"], Empty}
      withProps == {With([type |-> "object"], "properties", p) : p \in PropertyMaps}
                     \cup {[type |-> "object"]}
      withReq == withProps \cup {With(n, "required", r) : n \in withProps, r \in RequiredLists}
      plain == withReq \cup {With(n, "additionalProperties", a) :
                               n \in withReq, a \in AdditionalPropertiesValues}
      anyOfs == {[anyOf |-> l] : l \in BranchLists}
      oneOfs == {[oneOf |-> l] : l \in BranchLists}
      oneOfsD == {With(n, "discriminator", d) : n \in oneOfs, d \in Discriminators}
      allOfs == {[allOf |-> l] : l \in SeqsUpTo({Str, RefA, Inner}, MaxBranches)}
      combined == anyOfs \cup oneOfs \cup oneOfsD \cup allOfs
      mixed == { [type |-> "object",
                  allOf |-> <<RefA, RefB>>, anyOf |-> a, oneOf |-> <<RefA, Str>>,
                  discriminator |-> d,
                  properties |-> p, required |-> <<"a", "z">>, additionalProperties |-> ap]
                 : a \in {<<RequiredOnly>>, <<Str, RequiredOnly, Num>>},
                   d \in Discriminators,
                   p \in {<<>>, <<[k |-> "a", v |-> Str]>>},
                   ap \in {JsFalse, Num, [anyOf |-> <<RequiredOnly>>]} }
  IN plain \cup combined \cup mixed
       \cup {With(n, "nullable", TRUE) : n \in withProps}
       \cup {With(n, "format", "binary") : n \in withProps}

Nodes == Leaves \cup ArrayNodes \cup ObjectNodes

\* version 2 with the additionalProperties option unset is left out: the option
\* is read only together with version 3
Options ==
  { o \in [ immutableTypes : BOOLEAN,
            defaultNonNullable : BOOLEAN,
            additionalProperties : BOOLEAN,
            version : {2, 3},
            supportArrayLength : BOOLEAN,
            formatter : {"none", "format"},
            required : {{}, {"a"}} ] :
      o.version = 3 \/ o.additionalProperties }

(***************************************************************************)
(* The state machine: one input is drawn, one exported function is called  *)
(* on it.                                                                  *)
(***************************************************************************)
Init ==
  /\ node \in Nodes
  /\ options \in Options
  /\ called = "none"
  /\ output = ""
  /\ fields = <<>>

TransformSchemaObj ==
  /\ called = "none"
  /\ called' = "transformSchemaObj"
  /\ output' = transformSchemaObj(node, options)
  /\ UNCHANGED <<node, options, fields>>

TransformSchemaObjMap ==
  /\ called = "none"
  /\ Has(node, "properties")
  /\ called' = "transformSchemaObjMap"
  /\ output' = transformSchemaObjMap(node.properties, options)
  /\ UNCHANGED <<node, options, fields>>

AddRequiredProps ==
  /\ called = "none"
  /\ nodeType(node) = "object"
  /\ called' = "addRequiredProps"
  /\ fields' = addRequiredProps(IF Has(node, "properties") THEN node.properties ELSE <<>>,
                               IF Has(node, "required") THEN node.required ELSE <<>>,
                               Get(node, "additionalProperties"), options)
  /\ UNCHANGED <<node, options, output>>

TransformAnyOf ==
  /\ called = "none"
  /\ Has(node, "anyOf")
  /\ called' = "transformAnyOf"
  /\ output' = transformAnyOf(node.anyOf, options)
  /\ UNCHANGED <<node, options, fields>>

TransformOneOf ==
  /\ called = "none"
  /\ Has(node, "oneOf")
  /\ called' = "transformOneOf"
  /\ output' = transformOneOf(node.oneOf, options, Get(node, "discriminator"))
  /\ UNCHANGED <<node, options, fields>>

Next ==
  \/ TransformSchemaObj
  \/ TransformSchemaObjMap
  \/ AddRequiredProps
  \/ TransformAnyOf
  \/ TransformOneOf

Spec == Init /\ [][Next]_vars

(***************************************************************************)
(* Properties                                                              *)
(***************************************************************************)
\* "(" + e + ") | null" for a nullable node, e otherwise
Wrapped(n, e) == IF Nullable(n) THEN "(" \o e \o ") | null" ELSE e

\* the node is transformed by the default dispatch (no override)
Dispatched == called = "transformSchemaObj" /\ OverriddenType(node, options) = ""

PropertiesOf(n) == IF Has(n, "properties") THEN n.properties ELSE <<>>
RequiredOf(n) == IF Has(n, "required") THEN n.required ELSE <<>>

\* C1: for every node with nullable = true, transformSchemaObj returns exactly
\* "(" + E + ") | null", E being what it returns for the same node with
\* nullable not set.
C1_NullableWrapping ==
  (called = "transformSchemaObj" /\ Nullable(node))
    => output = "(" \o transformSchemaObj(Without(node, "nullable"), options)
                \o ") | null"

\* The field declarations the requiredness rule prescribes for a property map
\* under the required names `req`: no "?" for a name in req, or with
\* defaultNonNullable and a default; "?" otherwise. The nested types are
\* transformed under an unrelated required set.
C2_Block(props, req, opts) ==
  Concat([i \in 1..Len(props) |->
    LET k == props[i].k
        target == IF Has(props[i].v, "schema") THEN props[i].v.schema ELSE props[i].v
        marker == IF k \in req \/ (opts.defaultNonNullable /\ Has(target, "default"))
                  THEN "" ELSE "?"
    IN prepareComment(props[i].v)
       \o (IF opts.immutableTypes THEN "readonly " ELSE "")
       \o "\"" \o k \o "\"" \o marker \o ": "
       \o transformSchemaObj(target, [opts EXCEPT !.required = {"unrelated"}])
       \o ";\n"])

\* the object's only part is its property block
C2_OnlyProperties(n) ==
  /\ nodeType(n) = "object"
  /\ DOMAIN n \subseteq {"type", "properties", "required", "nullable"}
  /\ Len(PropertiesOf(n)) > 0
  /\ Range(RequiredOf(n)) \subseteq Keys(PropertiesOf(n))

\* C2: a declared property carries no "?" exactly when its name is in the
\* required list of the object that declares it, or defaultNonNullable is set
\* and it has a default; the required names of an enclosing object (here
\* options.required) never decide it.
C2_Requiredness ==
  /\ called = "transformSchemaObjMap"
       => output = C2_Block(node.properties, options.required, options)
  /\ (Dispatched /\ C2_OnlyProperties(node) /\ options.additionalProperties = FALSE)
       => output = Wrapped(node, "{\n"
                      \o C2_Block(node.properties, Range(RequiredOf(node)), options)
                      \o "\n}")
  /\ (Dispatched /\ nodeType(node) = "object" /\ ~IsEmptyObject(node)
        /\ Len(PropertiesOf(node)) > 0)
       => \E i \in 1..Len(ObjectParts(node, options)) :
            ObjectParts(node, options)[i]
              = "{\n" \o C2_Block(node.properties, Range(RequiredOf(node)), options)
                \o "\n}"

\* a nested object whose property "a" is optional inside an object that
\* requires its own "a", transformed under enclosing required names {"a"}
C2_Witness ==
  /\ called = "transformSchemaObj"
  /\ node = [type |-> "object",
             properties |-> <<[k |-> "a", v |-> Inner], [k |-> "c", v |-> StrDate]>>,
             required |-> <<"a">>]
  /\ options.required = {"a"}
  /\ options.formatter = "none"
  /\ ~options.immutableTypes
  /\ ~options.additionalProperties
  /\ output = "{\n\"a\": {\n\"a\"?: string;\n\"c\": number;\n\n};\n\"c\"?: string;\n\n}"

\* the member the claim prescribes for one oneOf branch
C3_Member(value, opts, discriminator) ==
  IF /\ ~IsUndefined(discriminator)
     /\ Has(value, "ref")
     /\ \E i \in 1..Len(discriminator.mapping) : discriminator.mapping[i].v = value.ref
  THEN transformSchemaObj(value, opts)
       \o " & { \"" \o discriminator.propertyName \o "\": \""
       \o DiscriminatorMapGet(discriminator.mapping, value.ref) \o "\" }"
  ELSE transformSchemaObj(value, opts)

\* C3: every oneOf branch that is a reference the discriminator maps is emitted
\* as its transform intersected with { "<propertyName>": "<mapped key>" }, every
\* other branch as its plain transform, one union member per branch in order.
C3_DiscriminatorNarrowing ==
  called = "transformOneOf"
    => output = Join([i \in 1..Len(node.oneOf) |->
                        C3_Member(node.oneOf[i], options, Get(node, "discriminator"))],
                     " | ")

\* min, max and estimate as the claim defines them
C4_Min(n) == IF Has(n, "minItems") /\ n.minItems >= 0 THEN n.minItems ELSE 0
C4_MaxDefined(n) == Has(n, "maxItems") /\ n.maxItems >= 0 /\ n.maxItems >= C4_Min(n)
C4_Estimate(n) ==
  IF ~C4_MaxDefined(n) THEN C4_Min(n)
  ELSE (n.maxItems * (n.maxItems + 1)) \div 2 - (C4_Min(n) * (C4_Min(n) - 1)) \div 2
C4_Tuple(len, item) == "[" \o Join([i \in 1..len |-> item], ", ") \o "]"
C4_Expected(n, opts) ==
  LET item == IF Has(n, "items") THEN transformSchemaObj(n.items, opts) ELSE "unknown"
      ro == IF opts.immutableTypes THEN "readonly " ELSE ""
  IN IF (C4_Min(n) # 0 \/ C4_MaxDefined(n)) /\ opts.supportArrayLength
        /\ C4_Estimate(n) < 30
     THEN IF ~C4_MaxDefined(n)
          THEN ro \o "[" \o Join([i \in 1..(C4_Min(n) + 1) |->
                                    IF i <= C4_Min(n) THEN item ELSE "..." \o item \o "[]"],
                                 ", ") \o "]"
          ELSE Join([i \in 1..(n.maxItems - C4_Min(n) + 1) |->
                       ro \o C4_Tuple(C4_Min(n) + i - 1, item)], " | ")
     ELSE ro \o item \o "[]"

\* C4: an array node with a single items schema expands to a tuple with a rest
\* (max undefined) or to the union of the max-min+1 tuples of lengths min..max
\* exactly when (min # 0 or max defined), supportArrayLength is set and the
\* estimate is below 30; in every other case it is the plain array.
C4_TupleThreshold ==
  (Dispatched /\ nodeType(node) = "array" /\ ~Has(node, "itemsTuple"))
    => output = Wrapped(node, C4_Expected(node, options))

\* minItems 1, maxItems 3 gives the three tuples
C4_Witness ==
  /\ called = "transformSchemaObj"
  /\ node = [type |-> "array", items |-> Str, minItems |-> 1, maxItems |-> 3]
  /\ options.supportArrayLength
  /\ output = "[string] | [string, string] | [string, string, string]"

\* the branches the claim keeps: all but those whose only key is `required`
C5_Kept(anyOf) == SelectSeq(anyOf, LAMBDA s : DOMAIN s # {"required"})

\* C5: transformAnyOf drops exactly the branches whose only key is `required`,
\* unions the transforms of the others in order and returns "" when none is
\* kept; such an empty result adds no member to the object's intersection.
C5_AnyOfFiltering ==
  /\ called = "transformAnyOf"
       => /\ output = Join([i \in 1..Len(C5_Kept(node.anyOf)) |->
                              transformSchemaObj(C5_Kept(node.anyOf)[i], options)],
                           " | ")
          /\ Len(C5_Kept(node.anyOf)) = 0 => output = ""
  /\ (Dispatched /\ Has(node, "anyOf") /\ Len(C5_Kept(node.anyOf)) = 0
        /\ nodeType(Without(node, "anyOf")) = "object"
        /\ ~IsEmptyObject(Without(node, "anyOf")))
       => output = transformSchemaObj(Without(node, "anyOf"), options)

\* a required-only branch is dropped next to a kept required-plus-properties one
C5_Witness ==
  /\ called = "transformAnyOf"
  /\ Len(node.anyOf) = 2
  /\ node.anyOf[1] = RequiredOnly
  /\ node.anyOf[2] = [required |-> <<"x">>, properties |-> <<>>]
  /\ options.formatter = "none"
  /\ output = "{ [key: string]: unknown } & {\nx: unknown;\n}"

\* the fields the claim prescribes
C6_Expected(properties, required, additionalProperties, opts) ==
  LET missing == SelectSeq(required, LAMBDA r : r \notin Keys(properties))
      valueType == IF Truthy(additionalProperties)
                   THEN transformSchemaObj(additionalProperties, opts)
                   ELSE "unknown"
  IN IF Len(missing) = 0 THEN <<>>
     ELSE <<"{\n" \o Concat([i \in 1..Len(missing) |->
                               missing[i] \o ": " \o valueType \o ";\n"]) \o "}">>

\* C6: addRequiredProps emits exactly one field for each required name that is
\* not a key of the property map, typed by the transform of additionalProperties
\* when present and by unknown otherwise, and nothing when no name is missing.
C6_MissingRequired ==
  called = "addRequiredProps"
    => fields = C6_Expected(PropertiesOf(node), RequiredOf(node),
                            Get(node, "additionalProperties"), options)

\* C7 as stated: whenever the formatter returns a non-empty result for a node,
\* the expression transformSchemaObj emits for the node is that result verbatim.
C7_FormatterVerbatim ==
  (called = "transformSchemaObj" /\ OverriddenType(node, options) # "")
    => output = Formatter(options.formatter, node)

\* C7 amended: the formatter's non-empty result is the node's expression with
\* no dispatch into the node, for every node shape, returned as it is for a
\* node that is not nullable and as "(" + result + ") | null" for a nullable
\* one; with no formatter, or an empty result, a childless node gets the
\* expression of the default dispatch.
C7_FormatterOverride ==
  called = "transformSchemaObj"
    => /\ (options.formatter # "none" /\ Formatter(options.formatter, node) # "")
            => output = Wrapped(node, Formatter(options.formatter, node))
       /\ (options.formatter = "none" \/ Formatter(options.formatter, node) = "")
            => /\ nodeType(node) \in {"null", "string", "number", "boolean", "unknown"}
                    => output = Wrapped(node, nodeType(node))
               /\ nodeType(node) = "ref" => output = Wrapped(node, node.ref)

\* a nullable node the formatter overrides
C7_Witness ==
  /\ called = "transformSchemaObj"
  /\ options.formatter = "format"
  /\ node = [type |-> "string", format |-> "date-time", nullable |-> TRUE]
  /\ output = "(Date) | null"

C9_Parts(n, opts) ==
  LET allOf == IF Has(n, "allOf")
               THEN [i \in 1..Len(n.allOf) |-> transformSchemaObj(n.allOf[i], opts)]
               ELSE <<>>
      anyOf == IF Has(n, "anyOf") THEN <<transformAnyOf(n.anyOf, opts)>> ELSE <<>>
      oneOf == IF Has(n, "oneOf")
               THEN <<transformOneOf(n.oneOf, opts, Get(n, "discriminator"))>>
               ELSE <<>>
      block == transformSchemaObjMap(PropertiesOf(n),
                 [opts EXCEPT !.required = Range(RequiredOf(n))])
      props == <<"{\n" \o block \o "\n}">>
      synthesized == addRequiredProps(PropertiesOf(n), RequiredOf(n),
                                      Get(n, "additionalProperties"), opts)
      catchAll == <<AdditionalProperties(n, opts)>>
  IN SelectSeq(allOf, LAMBDA e : e # "")
     \o SelectSeq(anyOf, LAMBDA e : e # "")
     \o SelectSeq(oneOf, LAMBDA e : e # "")
     \o (IF block # "" THEN props ELSE <<>>)
     \o synthesized
     \o SelectSeq(catchAll, LAMBDA e : e # "")

\* C9: a non-empty object is the intersection of (a) its allOf members, (b) the
\* anyOf result, (c) the oneOf result, (d) the property block, (e) the
\* synthesized fields, (f) the catch-all, in this order, each only when present
\* and not empty.
C9_AssemblyOrder ==
  (Dispatched /\ nodeType(node) = "object" /\ ~IsEmptyObject(node))
    => /\ output = Wrapped(node, Join(C9_Parts(node, options), " & "))
       /\ \A i \in 1..Len(C9_Parts(node, options)) : C9_Parts(node, options)[i] # ""

\* all six parts present but an anyOf whose branches are all filtered out
C9_Witness ==
  /\ called = "transformSchemaObj"
  /\ options.formatter = "none"
  /\ ~options.immutableTypes
  /\ Has(node, "allOf") /\ Has(node, "oneOf")
  /\ Has(node, "anyOf") /\ node.anyOf = <<RequiredOnly>>
  /\ Has(node, "discriminator") /\ node.discriminator.propertyName = "pet-type"
  /\ PropertiesOf(node) = <<[k |-> "a", v |-> Str]>>
  /\ Get(node, "additionalProperties") = Num
  /\ output = "#/A & #/B & #/A | string & {\n\"a\": string;\n\n} & {\nz: number;\n}"
              \o " & { [key: string]: number; }"

\* C10: a non-empty object emits a catch-all index signature exactly when
\* additionalProperties is truthy, or absent with version 3 and the global
\* option set; its value type is unknown (true, {} or absent), the oneOf/anyOf
\* result, or the transform of additionalProperties with unknown for an empty
\* one; and that value type is never empty.
C10_AdditionalPropertiesResolution ==
  (Dispatched /\ nodeType(node) = "object" /\ ~IsEmptyObject(node))
    => LET ap == Get(node, "additionalProperties")
           emitted == \/ Truthy(ap)
                      \/ (IsUndefined(ap) /\ options.version = 3
                          /\ options.additionalProperties)
           valueType ==
             IF IsUndefined(ap) \/ ap = JsTrue \/ ap = Empty THEN "unknown"
             ELSE IF Has(ap, "oneOf") THEN transformOneOf(ap.oneOf, options, Undefined)
             ELSE IF Has(ap, "anyOf") THEN transformAnyOf(ap.anyOf, options)
             ELSE IF transformSchemaObj(ap, options) = "" THEN "unknown"
             ELSE transformSchemaObj(ap, options)
           ro == IF options.immutableTypes THEN "readonly " ELSE ""
           signature == IF IsUndefined(ap) \/ ap = JsTrue \/ ap = Empty
                        THEN "{ " \o ro \o "[key: string]: unknown }"
                        ELSE "{ " \o ro \o "[key: string]: " \o valueType \o "; }"
       IN /\ emitted <=> AdditionalProperties(node, options) # ""
          /\ emitted => /\ AdditionalProperties(node, options) = signature
                        /\ valueType # ""
          /\ (emitted /\ DOMAIN node \subseteq {"type", "additionalProperties", "nullable"})
               => /\ output = Wrapped(node, signature)
                  /\ output # Wrapped(node, "{ " \o ro \o "[key: string]: ; }")

====
